---- MODULE Spec2Model ----
(***************************************************************************)
(* Template Service bootstrap (services/template-service/src/main.py):     *)
(* the module-level DATABASE_URL normalisation, the lifespan() context     *)
(* manager that acquires and releases the database engine and the redis    *)
(* client held in src.services.state, and the /health handler.             *)
(*                                                                         *)
(* Python strings are modelled as sequences of one-character strings, an   *)
(* optional string (os.getenv may return None) as a record                 *)
(* [isNone, s].  Object references held in the state container are         *)
(* "None" or the name of the one object the code ever binds there.         *)
(***************************************************************************)
EXTENDS Naturals, Sequences, FiniteSets

VARIABLES
    env_url,        \* os.environ's DATABASE_URL (fixed for the process)
    DATABASE_URL,   \* the module global DATABASE_URL
    cfg,            \* position in the module-level configuration code
    lpc,            \* position of lifespan()
    engine,         \* state.engine
    async_session,  \* state.async_session
    redis_client,   \* state.redis_client
    pool,           \* the engine's connection pool: absent / open / disposed
    conn,           \* the redis client's connection: absent / open / closed
    log,            \* messages written through logger
    dbUp,           \* environment: the database answers
    cacheUp,        \* environment: the cache answers
    hpc,            \* position of each health_check() invocation
    db_connected,   \* health_check's local db_connected
    session,        \* health_check's session is open
    response,       \* the HealthResponse of the last completed invocation
    hist            \* history of what happened (read by no action)

vars == <<env_url, DATABASE_URL, cfg, lpc, engine, async_session, redis_client,
          pool, conn, log, dbUp, cacheUp, hpc, db_connected, session, response,
          hist>>

cfgVars == <<env_url, DATABASE_URL, cfg>>
refVars == <<engine, async_session, redis_client>>
lifeVars == <<lpc, engine, async_session, redis_client, pool, conn, log>>
envVars == <<dbUp, cacheUp>>
healthVars == <<hpc, db_connected, session, response>>

\* Bounds of the model.
NumHandlers == 2
MaxPieces == 2

Handlers == 1..NumHandlers

----------------------------------------------------------------------------
(* Strings                                                                 *)

NoneStr == [isNone |-> TRUE, s |-> <<>>]
Str(chars) == [isNone |-> FALSE, s |-> chars]

\* bool(v) for an optional string: None and "" are falsy.
Truthy(v) == ~v.isNone /\ Len(v.s) > 0

\* "postgresql://"
PgScheme == <<"p","o","s","t","g","r","e","s","q","l",":","/","/">>
\* "postgresql+asyncpg://"
AsyncPgScheme == <<"p","o","s","t","g","r","e","s","q","l","+",
                   "a","s","y","n","c","p","g",":","/","/">>

\* str.startswith
StartsWith(s, p) == Len(s) >= Len(p) /\ SubSeq(s, 1, Len(p)) = p

\* str.find, 1-based; 0 when old does not occur in s.
Find(s, old) ==
    LET hits == {i \in 1..Len(s) : /\ i + Len(old) - 1 <= Len(s)
                                   /\ SubSeq(s, i, i + Len(old) - 1) = old}
    IN IF hits = {} THEN 0 ELSE CHOOSE i \in hits : \A j \in hits : i <= j

\* str.replace(old, new, count) for a non-empty old: the leftmost count
\* non-overlapping occurrences are replaced.
RECURSIVE Replace(_, _, _, _)
Replace(s, old, new, count) ==
    IF count = 0 THEN s
    ELSE LET i == Find(s, old)
         IN IF i = 0 THEN s
            ELSE SubSeq(s, 1, i - 1) \o new
                 \o Replace(SubSeq(s, i + Len(old), Len(s)), old, new, count - 1)

\* A replace that forgets the count argument: every occurrence is rewritten.
NormalizeUrl_ReplaceAll(v) ==
    IF Truthy(v) /\ StartsWith(v.s, PgScheme)
    THEN Str(Replace(v.s, PgScheme, AsyncPgScheme, Len(v.s)))
    ELSE v

\* Lines 28-29.
NormalizeUrl(v) ==
    IF Truthy(v) /\ StartsWith(v.s, PgScheme)
    THEN Str(Replace(v.s, PgScheme, AsyncPgScheme, 1))
    ELSE v

\* The pieces the checked URLs are built from.
Pieces == { PgScheme,
            AsyncPgScheme,
            <<"p","o","s","t","g","r","e","s","q","l",":","/">>,
            <<"p","o","s","t","g","r","e","s">>,
            <<"m","y","s","q","l",":","/","/">>,
            <<"u","@","h","/","d","b">> }

RECURSIVE Concats(_)
Concats(n) ==
    IF n = 0 THEN { <<>> }
    ELSE LET prev == Concats(n - 1)
         IN prev \cup { p \o u : p \in Pieces, u \in prev }

\* Values of DATABASE_URL in the environment that the normalisation is
\* checked on: unset, empty, and every concatenation of up to MaxPieces pieces.
UrlInputs == { NoneStr } \cup { Str(u) : u \in Concats(MaxPieces) }

\* Values of DATABASE_URL the service is started with.
ServiceUrls == { NoneStr, Str(PgScheme \o <<"u","@","h","/","d","b">>) }

----------------------------------------------------------------------------
(* Initial state                                                           *)

NoResponse == [present |-> FALSE, status |-> "", service |-> "",
               database_connected |-> FALSE, redis_connected |-> FALSE]

\* src.services.state before lifespan() runs: nothing bound.
StateInit ==
    /\ engine = "None"
    /\ async_session = "None"
    /\ redis_client = "None"

HistInit ==
    [ steps |-> <<>>,            \* startup steps completed, in order
      startupError |-> "none",   \* the startup step that raised
      served |-> FALSE,          \* lifespan() reached its yield
      nDispose |-> 0,            \* calls of state.engine.dispose()
      nClose |-> 0,              \* calls of state.redis_client.close()
      shutdownError |-> "none",  \* the release that raised
      writes |-> [engine |-> 0, async_session |-> 0, redis_client |-> 0],
      opened |-> [h \in Handlers |-> FALSE],   \* the invocation opened a session
      queried |-> [h \in Handlers |-> FALSE],  \* its SELECT 1 succeeded
      probeExc |-> [h \in Handlers |-> FALSE]  \* an exception reached its except
    ]

InitRest ==
    /\ DATABASE_URL = NoneStr
    /\ cfg = "getenv"
    /\ lpc = "not_started"
    /\ StateInit
    /\ pool = "absent"
    /\ conn = "absent"
    /\ log = <<>>
    /\ dbUp \in BOOLEAN
    /\ cacheUp \in BOOLEAN
    /\ hpc = [h \in Handlers |-> "idle"]
    /\ db_connected = [h \in Handlers |-> FALSE]
    /\ session = [h \in Handlers |-> FALSE]
    /\ response = [h \in Handlers |-> NoResponse]
    /\ hist = HistInit

Init == env_url \in ServiceUrls /\ InitRest

InitNorm == env_url \in UrlInputs /\ InitRest

----------------------------------------------------------------------------
(* Module-level configuration, lines 26-29                                 *)

\* Line 26: DATABASE_URL = os.getenv("DATABASE_URL")
GetEnv ==
    /\ cfg = "getenv"
    /\ DATABASE_URL' = env_url
    /\ cfg' = "normalize"
    /\ UNCHANGED <<env_url, lifeVars, envVars, healthVars, hist>>

\* Lines 28-29: the scheme rewrite.
Normalize ==
    /\ cfg = "normalize"
    /\ DATABASE_URL' = NormalizeUrl(DATABASE_URL)
    /\ cfg' = "loaded"
    /\ UNCHANGED <<env_url, lifeVars, envVars, healthVars, hist>>

----------------------------------------------------------------------------
(* lifespan(), lines 37-62                                                 *)

\* Line 41: state.engine = create_async_engine(DATABASE_URL, ...).  The call
\* raises for a missing or empty URL and may raise for any other (a scheme
\* whose driver is not installed, an unparsable URL).
CreateEngine ==
    /\ cfg = "loaded"
    /\ lpc = "not_started"
    /\ \E ok \in BOOLEAN :
         IF ok /\ Truthy(DATABASE_URL)
         THEN /\ engine' = "Engine"
              /\ pool' = "open"
              /\ lpc' = "sessionmaker"
              /\ hist' = [hist EXCEPT !.steps = Append(@, "engine"),
                                      !.writes.engine = @ + 1]
         ELSE /\ lpc' = "log_error"
              /\ hist' = [hist EXCEPT !.startupError = "engine"]
              /\ UNCHANGED <<engine, pool>>
    /\ UNCHANGED <<cfgVars, async_session, redis_client, conn, log, envVars,
                   healthVars>>

\* A start-up that skips the schema initialisation.
MakeSessionFactory_SkipsSchema ==
    /\ lpc = "sessionmaker"
    /\ async_session' = "SessionFactory"
    /\ lpc' = "from_url"
    /\ hist' = [hist EXCEPT !.steps = Append(@, "session_factory"),
                            !.writes.async_session = @ + 1]
    /\ UNCHANGED <<cfgVars, engine, redis_client, pool, conn, log, envVars,
                   healthVars>>

\* Lines 42-44: state.async_session = async_sessionmaker(state.engine, ...)
MakeSessionFactory ==
    /\ lpc = "sessionmaker"
    /\ async_session' = "SessionFactory"
    /\ lpc' = "create_all"
    /\ hist' = [hist EXCEPT !.steps = Append(@, "session_factory"),
                            !.writes.async_session = @ + 1]
    /\ UNCHANGED <<cfgVars, engine, redis_client, pool, conn, log, envVars,
                   healthVars>>

\* Lines 46-47: async with state.engine.begin() as conn:
\*                  await conn.run_sync(Base.metadata.create_all)
\* needs a database round trip; it raises when the database does not answer.
CreateAll ==
    /\ lpc = "create_all"
    /\ IF dbUp
       THEN /\ lpc' = "from_url"
            /\ hist' = [hist EXCEPT !.steps = Append(@, "schema")]
       ELSE /\ lpc' = "log_error"
            /\ hist' = [hist EXCEPT !.startupError = "schema"]
    /\ UNCHANGED <<cfgVars, refVars, pool, conn, log, envVars, healthVars>>

\* Line 49: state.redis_client = await aioredis.from_url(REDIS_URL, ...)
FromUrl ==
    /\ lpc = "from_url"
    /\ \E ok \in BOOLEAN :
         IF ok
         THEN /\ redis_client' = "Redis"
              /\ conn' = "open"
              /\ lpc' = "log_started"
              /\ hist' = [hist EXCEPT !.steps = Append(@, "cache"),
                                      !.writes.redis_client = @ + 1]
         ELSE /\ lpc' = "log_error"
              /\ hist' = [hist EXCEPT !.startupError = "cache"]
              /\ UNCHANGED <<redis_client, conn>>
    /\ UNCHANGED <<cfgVars, engine, async_session, pool, log, envVars,
                   healthVars>>

\* Line 50: logger.info("Template Service started successfully")
LogStarted ==
    /\ lpc = "log_started"
    /\ log' = Append(log, "started")
    /\ lpc' = "yield"
    /\ UNCHANGED <<cfgVars, refVars, pool, conn, envVars, healthVars, hist>>

\* Lines 52-53: except Exception as e: logger.error(...)
LogError ==
    /\ lpc = "log_error"
    /\ log' = Append(log, "failed")
    /\ lpc' = "raise"
    /\ UNCHANGED <<cfgVars, refVars, pool, conn, envVars, healthVars, hist>>

\* An except block that swallows the error and falls through to the yield.
Reraise_Swallows ==
    /\ lpc = "raise"
    /\ lpc' = "yield"
    /\ UNCHANGED <<cfgVars, refVars, pool, conn, log, envVars, healthVars, hist>>

\* Line 54: raise.  The exception leaves lifespan(); nothing after the try
\* statement runs.
Reraise ==
    /\ lpc = "raise"
    /\ lpc' = "aborted"
    /\ UNCHANGED <<cfgVars, refVars, pool, conn, log, envVars, healthVars, hist>>

\* Line 56: yield.  The application starts serving.
Yield ==
    /\ lpc = "yield"
    /\ lpc' = "serving"
    /\ hist' = [hist EXCEPT !.served = TRUE]
    /\ UNCHANGED <<cfgVars, refVars, pool, conn, log, envVars, healthVars>>

\* The framework resumes lifespan() after its yield: shutdown begins.
Resume ==
    /\ lpc = "serving"
    /\ lpc' = "dispose"
    /\ UNCHANGED <<cfgVars, refVars, pool, conn, log, envVars, healthVars, hist>>

\* A dispose whose failure is caught, so that the next release still runs.
Dispose_Guarded ==
    /\ lpc = "dispose"
    /\ IF engine # "None"
       THEN \E ok \in BOOLEAN :
              /\ pool' = IF ok THEN "disposed" ELSE pool
              /\ lpc' = "close"
              /\ hist' = [hist EXCEPT !.nDispose = @ + 1,
                            !.shutdownError = IF ok THEN @ ELSE "dispose"]
       ELSE /\ lpc' = "close"
            /\ UNCHANGED <<pool, hist>>
    /\ UNCHANGED <<cfgVars, refVars, conn, log, envVars, healthVars>>

\* Lines 58-59: if state.engine: await state.engine.dispose()
\* An exception of dispose() leaves lifespan().
Dispose ==
    /\ lpc = "dispose"
    /\ IF engine # "None"
       THEN \E ok \in BOOLEAN :
              IF ok
              THEN /\ pool' = "disposed"
                   /\ lpc' = "close"
                   /\ hist' = [hist EXCEPT !.nDispose = @ + 1]
              ELSE /\ lpc' = "crashed"
                   /\ hist' = [hist EXCEPT !.nDispose = @ + 1,
                                           !.shutdownError = "dispose"]
                   /\ UNCHANGED pool
       ELSE /\ lpc' = "close"
            /\ UNCHANGED <<pool, hist>>
    /\ UNCHANGED <<cfgVars, refVars, conn, log, envVars, healthVars>>

\* Lines 60-61: if state.redis_client: await state.redis_client.close()
Close ==
    /\ lpc = "close"
    /\ IF redis_client # "None"
       THEN \E ok \in BOOLEAN :
              IF ok
              THEN /\ conn' = "closed"
                   /\ lpc' = "log_shutdown"
                   /\ hist' = [hist EXCEPT !.nClose = @ + 1]
              ELSE /\ lpc' = "crashed"
                   /\ hist' = [hist EXCEPT !.nClose = @ + 1,
                                           !.shutdownError = "close"]
                   /\ UNCHANGED conn
       ELSE /\ lpc' = "log_shutdown"
            /\ UNCHANGED <<conn, hist>>
    /\ UNCHANGED <<cfgVars, refVars, pool, log, envVars, healthVars>>

\* Line 62: logger.info("Template Service shut down")
LogShutdown ==
    /\ lpc = "log_shutdown"
    /\ log' = Append(log, "shut down")
    /\ lpc' = "done"
    /\ UNCHANGED <<cfgVars, refVars, pool, conn, envVars, healthVars, hist>>

----------------------------------------------------------------------------
(* health_check(), lines 83-100                                            *)
(* The handler is a coroutine: other coroutines (other invocations,        *)
(* lifespan()) run at each of its awaits.  Nothing in this file ties an    *)
(* invocation to the serving phase of lifespan().                          *)

\* Line 86: db_connected = False
HealthCall(h) ==
    /\ cfg = "loaded"
    /\ hpc[h] \in {"idle", "returned"}
    /\ hpc' = [hpc EXCEPT ![h] = "open"]
    /\ db_connected' = [db_connected EXCEPT ![h] = FALSE]
    /\ response' = [response EXCEPT ![h] = NoResponse]
    /\ hist' = [hist EXCEPT !.opened[h] = FALSE, !.queried[h] = FALSE,
                            !.probeExc[h] = FALSE]
    /\ UNCHANGED <<cfgVars, lifeVars, envVars, session>>

\* A handler that builds the session factory itself when it finds none.
HealthOpenSession_LazyFactory(h) ==
    /\ hpc[h] = "open"
    /\ async_session' = "SessionFactory"
    /\ session' = [session EXCEPT ![h] = TRUE]
    /\ hpc' = [hpc EXCEPT ![h] = "execute"]
    /\ hist' = [hist EXCEPT !.opened[h] = TRUE,
                  !.writes.async_session =
                        IF async_session = "None" THEN @ + 1 ELSE @]
    /\ UNCHANGED <<cfgVars, lpc, engine, redis_client, pool, conn, log,
                   envVars, db_connected, response>>

\* Line 88: async with state.async_session() as session.  Calling None raises
\* TypeError, which the bare except of line 91 catches.
HealthOpenSession(h) ==
    /\ hpc[h] = "open"
    /\ IF async_session = "None"
       THEN /\ hpc' = [hpc EXCEPT ![h] = "return"]
            /\ hist' = [hist EXCEPT !.probeExc[h] = TRUE]
            /\ UNCHANGED session
       ELSE /\ session' = [session EXCEPT ![h] = TRUE]
            /\ hpc' = [hpc EXCEPT ![h] = "execute"]
            /\ hist' = [hist EXCEPT !.opened[h] = TRUE]
    /\ UNCHANGED <<cfgVars, lifeVars, envVars, db_connected, response>>

\* Lines 89-90: await session.execute(select(1)); db_connected = True.  When
\* the query raises, the async with closes the session and the exception is
\* caught at line 91.
HealthExecute(h) ==
    /\ hpc[h] = "execute"
    /\ IF dbUp
       THEN /\ db_connected' = [db_connected EXCEPT ![h] = TRUE]
            /\ hpc' = [hpc EXCEPT ![h] = "aexit"]
            /\ hist' = [hist EXCEPT !.queried[h] = TRUE]
            /\ UNCHANGED session
       ELSE /\ session' = [session EXCEPT ![h] = FALSE]
            /\ hpc' = [hpc EXCEPT ![h] = "return"]
            /\ hist' = [hist EXCEPT !.probeExc[h] = TRUE]
            /\ UNCHANGED db_connected
    /\ UNCHANGED <<cfgVars, lifeVars, envVars, response>>

\* Leaving the async with of line 88 normally: the session's __aexit__
\* awaits session.close(), which may raise (a lost connection, the request's
\* cancellation); lines 91-92 catch it and db_connected keeps its value.
HealthCloseSession(h) ==
    /\ hpc[h] = "aexit"
    /\ session' = [session EXCEPT ![h] = FALSE]
    /\ hpc' = [hpc EXCEPT ![h] = "return"]
    /\ \E raised \in BOOLEAN :
         hist' = [hist EXCEPT !.probeExc[h] = raised]
    /\ UNCHANGED <<cfgVars, lifeVars, envVars, db_connected, response>>

\* A health report that probes the cache instead of testing the reference.
HealthReturn_LiveProbe(h) ==
    /\ hpc[h] = "return"
    /\ response' = [response EXCEPT ![h] =
          [present |-> TRUE, status |-> "healthy",
           service |-> "template-service",
           database_connected |-> db_connected[h],
           redis_connected |-> (redis_client # "None" /\ cacheUp)]]
    /\ hpc' = [hpc EXCEPT ![h] = "returned"]
    /\ UNCHANGED <<cfgVars, lifeVars, envVars, db_connected, session, hist>>

\* Lines 94-100: return HealthResponse(...)
HealthReturn(h) ==
    /\ hpc[h] = "return"
    /\ response' = [response EXCEPT ![h] =
          [present |-> TRUE, status |-> "healthy",
           service |-> "template-service",
           database_connected |-> db_connected[h],
           redis_connected |-> (redis_client # "None")]]
    /\ hpc' = [hpc EXCEPT ![h] = "returned"]
    /\ UNCHANGED <<cfgVars, lifeVars, envVars, db_connected, session, hist>>

----------------------------------------------------------------------------
(* Environment                                                             *)

\* The database becomes reachable or unreachable.
DbFlip ==
    /\ dbUp' = ~dbUp
    /\ UNCHANGED <<cfgVars, lifeVars, cacheUp, healthVars, hist>>

\* The cache becomes reachable or unreachable.
CacheFlip ==
    /\ cacheUp' = ~cacheUp
    /\ UNCHANGED <<cfgVars, lifeVars, dbUp, healthVars, hist>>

----------------------------------------------------------------------------
(* Specifications                                                          *)

Next ==
    \/ GetEnv
    \/ Normalize
    \/ CreateEngine
    \/ MakeSessionFactory
    \/ CreateAll
    \/ FromUrl
    \/ LogStarted
    \/ LogError
    \/ Reraise
    \/ Yield
    \/ Resume
    \/ Dispose
    \/ Close
    \/ LogShutdown
    \/ \E h \in Handlers : HealthCall(h)
    \/ \E h \in Handlers : HealthOpenSession(h)
    \/ \E h \in Handlers : HealthExecute(h)
    \/ \E h \in Handlers : HealthCloseSession(h)
    \/ \E h \in Handlers : HealthReturn(h)
    \/ DbFlip
    \/ CacheFlip

\* The service: configuration, lifespan() and concurrent health checks.
Spec == Init /\ [][Next]_vars

NextNorm == GetEnv \/ Normalize

\* The configuration code alone, over every URL of UrlInputs.
SpecNorm == InitNorm /\ [][NextNorm]_vars

----------------------------------------------------------------------------
(* Properties                                                              *)

Range(f) == { f[i] : i \in DOMAIN f }

\* lifespan() has ended: by the re-raise of line 54, by an exception of a
\* release, or by returning after line 62.
Ended == lpc \in {"aborted", "crashed", "done"}

StartupOrder == <<"engine", "session_factory", "schema", "cache">>

\* C1: in every run of lifespan(), also one whose startup fails after the
\* engine was created, each resource that was acquired has been released
\* exactly once when lifespan() has ended: none is left unreleased, none is
\* released twice.
C1_EveryAcquiredResourceReleasedOnce ==
    Ended =>
        /\ (engine # "None" => hist.nDispose = 1 /\ pool = "disposed")
        /\ (redis_client # "None" => hist.nClose = 1 /\ conn = "closed")
        /\ hist.nDispose <= 1
        /\ hist.nClose <= 1

\* C2: once a startup step (engine construction, schema creation, cache
\* client construction) has failed, lifespan() is in its except block or has
\* left by the re-raise, the error has been logged before the re-raise, and
\* the yield is never reached: the service never serves.
C2_FailedStartupNeverServes ==
    hist.startupError # "none" =>
        /\ lpc \in {"log_error", "raise", "aborted"}
        /\ (lpc \in {"raise", "aborted"} => log = <<"failed">>)
        /\ ~hist.served

C2_Witness ==
    /\ lpc = "aborted"
    /\ hist.startupError = "cache"
    /\ engine = "Engine"
    /\ log = <<"failed">>

\* C3: the startup steps complete in the order engine, session factory,
\* schema initialisation, cache client; a step begins only when the previous
\* ones have completed, and the service serves only after all four.
C3_StartupStrictlyOrdered ==
    /\ Len(hist.steps) <= Len(StartupOrder)
    /\ hist.steps = SubSeq(StartupOrder, 1, Len(hist.steps))
    /\ (lpc = "not_started" => hist.steps = <<>>)
    /\ (lpc = "sessionmaker" => Len(hist.steps) = 1)
    /\ (lpc = "create_all" => Len(hist.steps) = 2)
    /\ (lpc = "from_url" => Len(hist.steps) = 3)
    /\ (hist.served \/ lpc \in {"log_started", "yield", "serving"}
            => hist.steps = StartupOrder)

C3_Witness ==
    /\ lpc = "serving"
    /\ hist.steps = StartupOrder
    /\ log = <<"started">>

\* C4: health_check() always returns a response, whose database_connected is
\* true exactly when the session was opened and the query succeeded, and is
\* false whenever an exception occurred during the probe.
C4_DbConnectedFalseOnAnyProbeException ==
    \A h \in Handlers :
        hpc[h] = "returned" =>
            /\ response[h].present
            /\ response[h].database_connected
                   = (hist.opened[h] /\ hist.queried[h])
            /\ (hist.probeExc[h] => ~response[h].database_connected)

\* C5: the redis_connected of every response that health_check() returns is
\* true exactly when the cache client was constructed during startup,
\* whatever the reachability of the cache and of the database at the call.
C5_RedisConnectedIffClientConstructed ==
    [][\A h \in Handlers :
          (hpc[h] = "return" /\ hpc'[h] = "returned") =>
              /\ response'[h].present
              /\ response'[h].redis_connected
                    = ("cache" \in Range(hist.steps))]_vars

C5_Witness ==
    \E h \in Handlers :
        /\ hpc[h] = "returned"
        /\ response[h].redis_connected
        /\ ~response[h].database_connected
        /\ ~cacheUp
        /\ hist.probeExc[h]

\* C6: when the shutdown phase of lifespan() is over, the release of every
\* held resource has been called: an absent resource is skipped, and the
\* release of one resource does not depend on the other.
C6_EveryHeldResourceReleaseCalled ==
    lpc \in {"crashed", "done"} =>
        /\ (engine # "None" => hist.nDispose = 1)
        /\ (redis_client # "None" => hist.nClose = 1)

\* C7: state.engine, state.async_session and state.redis_client are written
\* only by lifespan()'s startup lines, each at most once and each exactly
\* once before the service serves; no step of a health_check() invocation,
\* however the invocations interleave, changes any of them.
C7_ReferencesWrittenOnceByLifespan ==
    [][/\ (hpc' # hpc => UNCHANGED refVars)
       /\ (engine' # engine => lpc = "not_started" /\ engine = "None")
       /\ (async_session' # async_session
              => lpc = "sessionmaker" /\ async_session = "None")
       /\ (redis_client' # redis_client
              => lpc = "from_url" /\ redis_client = "None")
       /\ \A r \in DOMAIN hist.writes : hist'.writes[r] <= 1
       /\ (lpc' = "serving"
              => \A r \in DOMAIN hist.writes : hist'.writes[r] = 1)]_vars

C7_Witness ==
    /\ lpc = "serving"
    /\ \A r \in DOMAIN hist.writes : hist.writes[r] = 1
    /\ \E h1, h2 \in Handlers :
         /\ h1 # h2
         /\ hpc[h1] = "execute"
         /\ hpc[h2] = "aexit"

\* C8: a health_check() session is open only while the pool exists and has
\* not been disposed.
C8_SessionOpenOnlyWhilePoolOpen ==
    \A h \in Handlers : session[h] => pool = "open"

\* C9: after the configuration code, DATABASE_URL is the environment's value
\* with its leading "postgresql://" replaced by "postgresql+asyncpg://" and
\* the remainder unchanged when the value begins with "postgresql://", and
\* is the environment's value otherwise; normalising it again changes
\* nothing.
C9_NormalisationRewritesLeadingSchemeOnly ==
    cfg = "loaded" =>
        /\ (~env_url.isNone /\ StartsWith(env_url.s, PgScheme)
              => /\ ~DATABASE_URL.isNone
                 /\ DATABASE_URL.s =
                       AsyncPgScheme
                       \o SubSeq(env_url.s, Len(PgScheme) + 1, Len(env_url.s)))
        /\ (env_url.isNone \/ ~StartsWith(env_url.s, PgScheme)
              => DATABASE_URL = env_url)
        /\ NormalizeUrl(DATABASE_URL) = DATABASE_URL
        /\ NormalizeUrl(NormalizeUrl(env_url)) = NormalizeUrl(env_url)

C9_Witness ==
    /\ cfg = "loaded"
    /\ ~env_url.isNone
    /\ StartsWith(env_url.s, PgScheme)
    /\ Find(SubSeq(env_url.s, Len(PgScheme) + 1, Len(env_url.s)), PgScheme) # 0
    /\ DATABASE_URL # env_url
    /\ Find(DATABASE_URL.s, PgScheme) # 0

\* C10: an exception of the pool's dispose() leaves lifespan(), and the cache
\* client, although held, is then never closed; close() is called only after
\* dispose() completed without raising.
C10_DisposeFailureSkipsCacheClose ==
    /\ (hist.shutdownError = "dispose"
          => /\ lpc = "crashed"
             /\ redis_client # "None"
             /\ hist.nClose = 0
             /\ conn = "open")
    /\ (hist.nClose > 0 /\ engine # "None"
          => hist.nDispose = 1 /\ pool = "disposed")

C10_Witness ==
    /\ lpc = "crashed"
    /\ hist.shutdownError = "dispose"
    /\ redis_client = "Redis"
    /\ conn = "open"
    /\ hist.nClose = 0

====
